---- MODULE Spec2Model ----
(***************************************************************************)
(* A model of the SAP GUI scripting wrapper of src/sap_scripting.py: the   *)
(* SapSession primitives (element lookup, status bar, popup handling, grid *)
(* reading, UI locking) and the two workflow helpers built on them.        *)
(*                                                                         *)
(* The remote SAP GUI is the environment.  What it answers to a scripting  *)
(* call (a control or a failure, a status bar content, a grid) is either   *)
(* part of the state (the current screen) or chosen when the call is made. *)
(*                                                                         *)
(* Texts that the code inspects character by character (grid cells) are    *)
(* sequences of code points; texts it only passes on or tests for          *)
(* emptiness are strings.                                                  *)
(***************************************************************************)
EXTENDS Integers, Sequences, FiniteSets, TLC

VARIABLES
    screen,     \* the element ids that findById resolves on the current screen
    sbar,       \* the status bar of the current screen: Text and MessageType
    broken,     \* the controls of the screen whose press() fails
    controls,   \* the controls of the screen that the typed accessors, the
                \* table reader and the screen inventory look at
    grid,       \* the GuiGridView handed to the Grid Reader
    op,         \* the operation called last, with its arguments
    ret,        \* what that operation returned
    exc,        \* the exception chain that reached the caller (<<>>: none)
    calls,      \* the scripting calls that operation made, in order
    uiLocked,   \* whether the remote session's UI is locked
    frames,     \* the protected blocks of locked() that are open, innermost last
    pc          \* a running workflow helper's next statement (0: none running)

remote == <<screen, sbar, broken, controls>>
lock == <<uiLocked, frames>>
NoStatus == [text |-> "", type |-> ""]
NoControls == <<>>
vars ==
    <<screen, sbar, broken, controls, grid, op, ret, exc, calls, uiLocked, frames, pc>>

(***************************************************************************)
(* Bounds of the model.                                                    *)
(***************************************************************************)
MaxRows == 2
MaxDepth == 2       \* protected blocks open at once
MaxBlocks == 3      \* protected blocks entered in one run
MaxFields == 2      \* fields given to a workflow helper
MaxChildren == 2    \* children of an inventoried container (its container
                    \* children have up to one fewer)
MaxOpen == 2        \* open connections, sessions of a connection

(***************************************************************************)
(* Python values.                                                          *)
(***************************************************************************)
None == [kind |-> "None"]
NoReturn == [kind |-> "raised"]
Bool(b) == [kind |-> "bool", val |-> b]
Str(s) == [kind |-> "str", val |-> s]
List(s) == [kind |-> "list", val |-> s]
PyInt(n) == [kind |-> "int", val |-> n]

\* An argument the caller leaves out: the parameter takes its default.
Omitted == [kind |-> "omitted"]

\* Python's truth value of what a method returned: None and "" are false.
Truthy(v) == v # None /\ ~(v.kind = "str" /\ v.val = "")

NoException == <<>>
Idle == [name |-> "idle"]

Range(s) == {s[i] : i \in 1..Len(s)}
Min(a, b) == IF a < b THEN a ELSE b

(***************************************************************************)
(* str.strip() and sorted() over texts given as code points.               *)
(***************************************************************************)
Whitespace ==
    (9..13) \cup (28..32) \cup {133, 160, 5760} \cup (8192..8202)
        \cup {8232, 8233, 8239, 8287, 12288}

RECURSIVE LStrip(_)
LStrip(s) ==
    IF s # <<>> /\ s[1] \in Whitespace THEN LStrip(Tail(s)) ELSE s

RECURSIVE RStrip(_)
RStrip(s) ==
    IF s # <<>> /\ s[Len(s)] \in Whitespace
    THEN RStrip(SubSeq(s, 1, Len(s) - 1))
    ELSE s

Strip(s) == RStrip(LStrip(s))

\* Python's order on str: by code point, a proper prefix first.
StrLess(s, t) ==
    \E k \in 1..(Min(Len(s), Len(t)) + 1) :
        /\ \A i \in 1..(k - 1) : s[i] = t[i]
        /\ \/ k > Len(s) /\ k <= Len(t)
           \/ k <= Len(s) /\ k <= Len(t) /\ s[k] < t[k]

RECURSIVE Descending(_)
Descending(S) ==
    IF S = {} THEN <<>>
    ELSE LET m == CHOOSE x \in S : \A y \in S : x = y \/ StrLess(y, x)
         IN  <<m>> \o Descending(S \ {m})

RECURSIVE sorted(_)
sorted(S) ==
    IF S = {} THEN <<>>
    ELSE LET m == CHOOSE x \in S : \A y \in S : x = y \/ StrLess(x, y)
         IN  <<m>> \o sorted(S \ {m})

(***************************************************************************)
(* The GuiGridView control: ColumnOrder, RowCount, GetCellValue.           *)
(* A cell either holds a text or fails when read.                          *)
(***************************************************************************)
ColIds == {"BUKRS", "GJAHR"}

CellTexts == {<<65, 32>>, <<65>>, <<32, 65>>, <<66>>}     \* "A ", "A", " A", "B"

Unreadable == [ok |-> FALSE]
Cell(t) == [ok |-> TRUE, text |-> t]
Cells == {Cell(t) : t \in CellTexts} \cup {Unreadable}

\* ColumnOrder: the columns of the grid in display order, without repetition.
ColumnOrders ==
    {<<c>> : c \in ColIds} \cup {<<c, d>> : <<c, d>> \in {p \in ColIds \X ColIds : p[1] # p[2]}}

\* rows[i + 1] is row i of the grid (GetCellValue counts rows from 0).
GridsOver(cells) ==
    UNION {[order : {o}, rows : [1..n -> [Range(o) -> cells]]] :
               <<o, n>> \in ColumnOrders \X (0..MaxRows)}

Grids == GridsOver(Cells)

RowCount(g) == Len(g.rows)

CellFails(g, row, col) ==
    \/ row < 0
    \/ row >= RowCount(g)
    \/ col \notin Range(g.order)
    \/ ~g.rows[row + 1][col].ok

GetCellValue(g, row, col) == g.rows[row + 1][col].text

grid_get_columns(g) == g.order

NoColumns == [kind |-> "None"]
Columns(s) == [kind |-> "list", val |-> s]

\* A cell read that escalates nothing: it leaves the key out of the record.
RecordDroppingFailures(g, row, columns) ==
    [col \in {c \in Range(columns) : ~CellFails(g, row, c)} |-> GetCellValue(g, row, col)]

\* The inner loop of grid_read_all: one record, a failed cell read gives "".
Record(g, row, columns) ==
    [col \in Range(columns) |->
        IF CellFails(g, row, col) THEN <<>> ELSE GetCellValue(g, row, col)]

\* grid_read_all that starts at the second row.
grid_read_all_from_second(g, columns, max_rows) ==
    LET cols == IF columns = NoColumns THEN grid_get_columns(g) ELSE columns.val
        total == IF max_rows > 0 THEN Min(RowCount(g), max_rows) ELSE RowCount(g)
    IN  [ret |-> List([i \in 1..(total - 1) |-> Record(g, i, cols)]),
         exc |-> NoException]

\* grid_read_all that reads every row whatever the cap.
grid_read_all_uncapped(g, columns, max_rows) ==
    LET cols == IF columns = NoColumns THEN grid_get_columns(g) ELSE columns.val
    IN  [ret |-> List([i \in 1..RowCount(g) |-> Record(g, i - 1, cols)]),
         exc |-> NoException]

grid_read_all(g, columns, max_rows) ==
    LET cols == IF columns = NoColumns THEN grid_get_columns(g) ELSE columns.val
        total == IF max_rows > 0 THEN Min(RowCount(g), max_rows) ELSE RowCount(g)
    IN  [ret |-> List([i \in 1..total |-> Record(g, i - 1, cols)]),
         exc |-> NoException]

\* grid_get_distinct reads every row of one column without a handler: the first
\* failing cell read ends it with that error.
grid_get_distinct(g, column) ==
    IF \E row \in 0..(RowCount(g) - 1) : CellFails(g, row, column)
    THEN [ret |-> None, exc |-> <<"com_error">>]
    ELSE [ret |-> List(sorted({Strip(GetCellValue(g, row, column)) :
                                   row \in 0..(RowCount(g) - 1)})),
          exc |-> NoException]

(***************************************************************************)
(* Grid Reader: the caller holds a grid and calls one reader operation.    *)
(***************************************************************************)
ColumnLists == {NoColumns} \cup {Columns(<<c>>) : c \in ColIds}

InitGrid ==
    /\ grid \in Grids
    /\ op = Idle
    /\ ret = None
    /\ exc = NoException
    /\ calls = <<>>
    /\ screen = {}
    /\ sbar = NoStatus
    /\ broken = {}
    /\ controls = NoControls
    /\ uiLocked = FALSE
    /\ frames = <<>>
    /\ pc = 0

GridReadAll ==
    /\ op = Idle
    /\ \E columns \in ColumnLists, max_rows \in 0..(MaxRows + 1) :
          LET r == grid_read_all(grid, columns, max_rows)
          IN  /\ op' = [name |-> "grid_read_all", columns |-> columns,
                        max_rows |-> max_rows]
              /\ ret' = r.ret
              /\ exc' = r.exc
    /\ UNCHANGED <<grid, calls, remote, lock, pc>>

GridGetDistinct ==
    /\ op = Idle
    /\ \E column \in ColIds :
          LET r == grid_get_distinct(grid, column)
          IN  /\ op' = [name |-> "grid_get_distinct", column |-> column]
              /\ ret' = r.ret
              /\ exc' = r.exc
    /\ UNCHANGED <<grid, calls, remote, lock, pc>>

NextGrid == GridReadAll \/ GridGetDistinct

SpecGrid == InitGrid /\ [][NextGrid]_vars

(***************************************************************************)
(* Claims about the Grid Reader (checked under SpecGrid).                  *)
(***************************************************************************)
RowsOf(g) == 0..(RowCount(g) - 1)

\* C2: grid_read_all, called without a column list and without an effective
\* row cap on a grid of N rows and M columns, returns N records, each with
\* exactly the M column keys; a cell whose read fails (so every cell of a
\* column K that always fails) is the empty string, every other cell holds
\* its value.
C2_FailedCellsReadEmpty ==
    (/\ op.name = "grid_read_all"
     /\ op.columns = NoColumns
     /\ (op.max_rows = 0 \/ op.max_rows >= RowCount(grid)))
    => /\ exc = NoException
       /\ ret.kind = "list"
       /\ Len(ret.val) = RowCount(grid)
       /\ \A row \in RowsOf(grid) :
             /\ DOMAIN ret.val[row + 1] = Range(grid.order)
             /\ \A col \in Range(grid.order) :
                   ret.val[row + 1][col] =
                       IF grid.rows[row + 1][col].ok
                       THEN grid.rows[row + 1][col].text
                       ELSE <<>>

\* A grid of MaxRows rows and two columns, one failing on every read and the
\* other readable everywhere, has been read.
C2_Witness ==
    /\ op.name = "grid_read_all"
    /\ op.columns = NoColumns
    /\ op.max_rows = 0
    /\ RowCount(grid) = MaxRows
    /\ Len(grid.order) = 2
    /\ \A row \in RowsOf(grid) :
          /\ ~grid.rows[row + 1][grid.order[2]].ok
          /\ grid.rows[row + 1][grid.order[1]].ok
    /\ Len(ret.val) = MaxRows

\* v is s without its surrounding whitespace.
IsTrimOf(v, s) ==
    /\ v = <<>> \/ (v[1] \notin Whitespace /\ v[Len(v)] \notin Whitespace)
    /\ \E a \in 0..Len(s) : \E b \in a..Len(s) :
          /\ SubSeq(s, a + 1, b) = v
          /\ \A i \in (1..a) \cup ((b + 1)..Len(s)) : s[i] \in Whitespace

\* C7: grid_get_distinct returns the trimmed cell values of one column, each
\* once, in ascending order: when every cell of the column can be read it
\* returns, every value returned is the trimmed value of some row, and every
\* row's trimmed value is returned.
C7_DistinctTrimmedSorted ==
    op.name = "grid_get_distinct"
    => /\ (\A row \in RowsOf(grid) : ~CellFails(grid, row, op.column))
              => exc = NoException
       /\ exc = NoException
              => /\ ret.kind = "list"
                 /\ \A k \in 1..(Len(ret.val) - 1) :
                       StrLess(ret.val[k], ret.val[k + 1])
                 /\ \A k \in 1..Len(ret.val) : \E row \in RowsOf(grid) :
                       IsTrimOf(ret.val[k], GetCellValue(grid, row, op.column))
                 /\ \A row \in RowsOf(grid) : \E k \in 1..Len(ret.val) :
                       IsTrimOf(ret.val[k], GetCellValue(grid, row, op.column))

\* Two rows holding "B" and " A" have been folded into "A", "B".
C7_Witness ==
    /\ op.name = "grid_get_distinct"
    /\ exc = NoException
    /\ RowCount(grid) = 2
    /\ GetCellValue(grid, 0, op.column) = <<66>>
    /\ GetCellValue(grid, 1, op.column) = <<32, 65>>
    /\ ret = List(<<(<<65>>), (<<66>>)>>)

\* Two rows holding "A " and " A" have been folded into the one value "A".
C7_WitnessDuplicates ==
    /\ op.name = "grid_get_distinct"
    /\ exc = NoException
    /\ RowCount(grid) = 2
    /\ GetCellValue(grid, 0, op.column) = <<65, 32>>
    /\ GetCellValue(grid, 1, op.column) = <<32, 65>>
    /\ ret = List(<< <<65>> >>)

\* C18: no Grid Reader operation lets the failure of a cell read reach its
\* caller: grid_read_all and grid_get_distinct return normally whatever
\* cells fail, and grid_get_distinct returns the sorted distinct trimmed
\* values with a failed cell counted as the empty string.
C18_CellFailureNeverEscalates ==
    /\ op.name = "grid_read_all" => exc = NoException
    /\ op.name = "grid_get_distinct"
          => /\ exc = NoException
             /\ ret = List(sorted({IF CellFails(grid, row, op.column) THEN <<>>
                                   ELSE Strip(GetCellValue(grid, row, op.column)) :
                                       row \in RowsOf(grid)}))

(***************************************************************************)
(* The session and its current screen.  findById resolves the ids of the   *)
(* screen and fails on every other id; a control below a window exists     *)
(* only with its window.                                                   *)
(***************************************************************************)
MainWindow == "wnd[0]"
StatusBarId == "wnd[0]/sbar"
PopupWindow == "wnd[1]"
DismissButton == "wnd[1]/tbar[0]/btn[0]"
ToolbarButton == "wnd[0]/tbar[1]/btn[8]"
MissingWindow == "wnd[2]"

ElementIds == {MainWindow, StatusBarId, ToolbarButton, PopupWindow, DismissButton}
Buttons == {ToolbarButton, DismissButton}

ParentOf(id) ==
    CASE id \in {StatusBarId, ToolbarButton} -> MainWindow
      [] id = DismissButton -> PopupWindow
      [] OTHER -> id

Screens == {s \in SUBSET ElementIds : \A id \in s : ParentOf(id) \in s}

\* MessageType: S=Success, W=Warning, E=Error, A=Abort, I=Info, "" when none.
MessageTypes == {"S", "W", "E", "A", "I", ""}
MessageTexts == {"", "No authorization"}
StatusBars == [text : MessageTexts, type : MessageTypes]

Ctl(id) == [kind |-> "control", id |-> id]
Dict(d) == [kind |-> "dict", val |-> d]

FindByIdCall(id) == [call |-> "findById", id |-> id]
PressCall(id) == [call |-> "press", id |-> id]
ReadCall(id) == [call |-> "read", id |-> id]

ComError == <<"com_error">>

\* GuiSession.findById: the control, or a COM error.
Resolves(scr, id) == id \in scr

\* find_by_id that hides a miss in strict mode too.
find_by_id_never_raising(scr, element_id, raise_error) ==
    IF Resolves(scr, element_id)
    THEN [ret |-> Ctl(element_id), exc |-> NoException,
          calls |-> <<FindByIdCall(element_id)>>]
    ELSE [ret |-> None, exc |-> NoException,
          calls |-> <<FindByIdCall(element_id)>>]

find_by_id(scr, element_id, raise_error) ==
    IF Resolves(scr, element_id)
    THEN [ret |-> Ctl(element_id), exc |-> NoException,
          calls |-> <<FindByIdCall(element_id)>>]
    ELSE IF raise_error
         THEN [ret |-> NoReturn, exc |-> ComError,
               calls |-> <<FindByIdCall(element_id)>>]
         ELSE [ret |-> None, exc |-> NoException,
               calls |-> <<FindByIdCall(element_id)>>]

get_statusbar(scr, sb) ==
    IF Resolves(scr, StatusBarId)
    THEN [ret |-> Dict([text |-> sb.text, type |-> sb.type]), exc |-> NoException,
          calls |-> <<FindByIdCall(StatusBarId), ReadCall(StatusBarId)>>]
    ELSE [ret |-> NoReturn, exc |-> ComError,
          calls |-> <<FindByIdCall(StatusBarId)>>]

\* check_statusbar_error that reports Error only.
check_statusbar_error_only_E(scr, sb) ==
    LET r == get_statusbar(scr, sb)
    IN  IF r.exc # NoException THEN r
        ELSE IF r.ret.val.type \in {"E"}
             THEN [r EXCEPT !.ret = Str(r.ret.val.text)]
             ELSE [r EXCEPT !.ret = None]

check_statusbar_error(scr, sb) ==
    LET r == get_statusbar(scr, sb)
    IN  IF r.exc # NoException THEN r
        ELSE IF r.ret.val.type \in {"E", "A"}
             THEN [r EXCEPT !.ret = Str(r.ret.val.text)]
             ELSE [r EXCEPT !.ret = None]

\* A press that reports False although it went through.
PressInTryForgetful(scr, brk, button_id) ==
    [ret |-> Bool(FALSE), exc |-> NoException,
     calls |-> IF Resolves(scr, button_id)
               THEN <<FindByIdCall(button_id), PressCall(button_id)>>
               ELSE <<FindByIdCall(button_id)>>]

\* The press of button_id inside handle_popup's try block.
PressInTry(scr, brk, button_id) ==
    IF ~Resolves(scr, button_id)
    THEN [ret |-> Bool(FALSE), exc |-> NoException,
          calls |-> <<FindByIdCall(button_id)>>]
    ELSE IF button_id \in brk
         THEN [ret |-> Bool(FALSE), exc |-> NoException,
               calls |-> <<FindByIdCall(button_id), PressCall(button_id)>>]
         ELSE [ret |-> Bool(TRUE), exc |-> NoException,
               calls |-> <<FindByIdCall(button_id), PressCall(button_id)>>]

\* handle_popup that presses without looking for the popup window.
handle_popup_unchecked(scr, brk, button_id, check_exists) ==
    PressInTry(scr, brk, button_id)

handle_popup(scr, brk, button_id, check_exists) ==
    LET popup == find_by_id(scr, PopupWindow, FALSE)
    IN  IF check_exists /\ popup.ret = None
        THEN [ret |-> Bool(FALSE), exc |-> NoException, calls |-> popup.calls]
        ELSE LET p == PressInTry(scr, brk, button_id)
             IN  [p EXCEPT !.calls = (IF check_exists THEN popup.calls ELSE <<>>) \o @]

(***************************************************************************)
(* Session primitives called on the current screen; the remote application *)
(* redraws the screen between calls.                                       *)
(***************************************************************************)
NoGrid == [order |-> <<>>, rows |-> <<>>]

Init ==
    /\ screen \in Screens
    /\ sbar \in StatusBars
    /\ broken \in SUBSET (screen \cap Buttons)
    /\ controls = NoControls
    /\ grid = NoGrid
    /\ op = Idle
    /\ ret = None
    /\ exc = NoException
    /\ calls = <<>>
    /\ uiLocked = FALSE
    /\ frames = <<>>
    /\ pc = 0

Result(r) ==
    /\ ret' = r.ret
    /\ exc' = r.exc
    /\ calls' = r.calls

FindById ==
    /\ op = Idle
    /\ \E element_id \in ElementIds \cup {MissingWindow}, raise_error \in BOOLEAN :
          /\ op' = [name |-> "find_by_id", element_id |-> element_id,
                    raise_error |-> raise_error]
          /\ Result(find_by_id(screen, element_id, raise_error))
    /\ UNCHANGED <<remote, grid, lock, pc>>

GetStatusbar ==
    /\ op = Idle
    /\ op' = [name |-> "get_statusbar"]
    /\ Result(get_statusbar(screen, sbar))
    /\ UNCHANGED <<remote, grid, lock, pc>>

CheckStatusbarError ==
    /\ op = Idle
    /\ op' = [name |-> "check_statusbar_error"]
    /\ Result(check_statusbar_error(screen, sbar))
    /\ UNCHANGED <<remote, grid, lock, pc>>

HandlePopup ==
    /\ op = Idle
    /\ \E button_id \in Buttons, check_exists \in BOOLEAN :
          /\ op' = [name |-> "handle_popup", button_id |-> button_id,
                    check_exists |-> check_exists]
          /\ Result(handle_popup(screen, broken, button_id, check_exists))
    /\ UNCHANGED <<remote, grid, lock, pc>>

\* The remote application shows another screen (after a press, a key, a
\* transaction start, or on its own); the caller is free to call again.
Redraw ==
    /\ op # Idle
    /\ screen' \in Screens
    /\ sbar' \in StatusBars
    /\ broken' \in SUBSET (screen' \cap Buttons)
    /\ op' = Idle
    /\ ret' = None
    /\ exc' = NoException
    /\ calls' = <<>>
    /\ UNCHANGED <<controls, grid, lock, pc>>

Next ==
    \/ FindById
    \/ GetStatusbar
    \/ CheckStatusbarError
    \/ HandlePopup
    \/ Redraw

Spec == Init /\ [][Next]_vars

(***************************************************************************)
(* Claims about the session primitives (checked under Spec).               *)
(***************************************************************************)
Raised == exc # NoException
Pressed == {i \in 1..Len(calls) : calls[i].call = "press"}

\* C3: handle_popup on a screen where wnd[1] is present but the press of the
\* configured dismiss button fails raises an error to the caller.
C3_FailedDismissRaises ==
    (/\ op.name = "handle_popup"
     /\ PopupWindow \in screen
     /\ op.button_id \in screen \cap broken)
    => Raised

\* C4: handle_popup with the existence check enabled, on a screen without
\* wnd[1], returns False, raises nothing and presses no button.
C4_NoPopupReturnsFalse ==
    (/\ op.name = "handle_popup"
     /\ op.check_exists
     /\ PopupWindow \notin screen)
    => /\ ret = Bool(FALSE)
       /\ ~Raised
       /\ Pressed = {}

\* handle_popup was called for a button that is on the screen and works,
\* while no popup window is open.
C4_Witness ==
    /\ op.name = "handle_popup"
    /\ op.check_exists
    /\ PopupWindow \notin screen
    /\ op.button_id \in screen \ broken
    /\ ret = Bool(FALSE)

\* C8: find_by_id returns the control of every id present on the screen in
\* both modes; for an absent id it raises in strict mode and returns None,
\* raising nothing, in tolerant mode.
C8_StrictAndTolerantLookup ==
    op.name = "find_by_id"
    => /\ op.element_id \in screen
              => ret = Ctl(op.element_id) /\ ~Raised
       /\ (op.element_id \notin screen /\ op.raise_error)
              => Raised
       /\ (op.element_id \notin screen /\ ~op.raise_error)
              => ret = None /\ ~Raised

\* A strict lookup of an id that is not on a non-empty screen has raised.
C8_Witness ==
    /\ op.name = "find_by_id"
    /\ op.raise_error
    /\ screen # {}
    /\ op.element_id \notin screen
    /\ Raised

\* C9: check_statusbar_error returns the status bar text exactly when the
\* MessageType is E or A, and None for every other MessageType.
C9_ErrorTextIffErrorOrAbort ==
    (op.name = "check_statusbar_error" /\ StatusBarId \in screen)
    => /\ ~Raised
       /\ sbar.type \in {"E", "A"} => ret = Str(sbar.text)
       /\ sbar.type \notin {"E", "A"} => ret = None

\* An Abort message has been reported with its text.
C9_Witness ==
    /\ op.name = "check_statusbar_error"
    /\ StatusBarId \in screen
    /\ sbar.type = "A"
    /\ sbar.text # ""
    /\ ret = Str(sbar.text)

(***************************************************************************)
(* The scoped UI lock.  locked() calls lock_ui, runs the protected block   *)
(* and calls unlock_ui in a finally clause.  Blocks nest; exc is the       *)
(* exception in flight, calls the LockSessionUI and UnlockSessionUI calls  *)
(* made so far, each with the number of the block that made it.            *)
(***************************************************************************)
LockCall(b) == [call |-> "LockSessionUI", id |-> b]
UnlockCall(b) == [call |-> "UnlockSessionUI", id |-> b]

\* A LockSessionUI call that raised.
FailedLockCall(b) == [call |-> "LockSessionUI", id |-> b, raised |-> TRUE]

BlockError == <<"BlockError">>

CallsOf(kind) == {i \in 1..Len(calls) : calls[i].call = kind}
CallsOfBlock(kind, b) == {i \in CallsOf(kind) : calls[i].id = b}
Entered == Cardinality(CallsOf("LockSessionUI"))

\* An exit that unlocks only when the block completed normally.
UnlocksOnNormalExitOnly(error) == error = NoException

\* locked(): whether leaving the block with `error` in flight runs unlock_ui
\* (the finally clause runs on every exit path).
UnlocksOnExit(error) == TRUE

\* The exception that leaves the with statement: the block's error, or the
\* error of unlock_ui with the block's error as its context.
Leaves(error, unlockError) == unlockError \o error

InitLock ==
    /\ uiLocked = FALSE
    /\ frames = <<>>
    /\ op = Idle
    /\ ret = None
    /\ exc = NoException
    /\ calls = <<>>
    /\ grid = NoGrid
    /\ screen = {}
    /\ sbar = NoStatus
    /\ broken = {}
    /\ controls = NoControls
    /\ pc = 0

\* with sap.locked(): lock_ui succeeds and the block is entered, or
\* LockSessionUI fails and its error propagates from the with statement.
\* An entry that runs unlock_ui when LockSessionUI fails.
EnterLockedInsideTry ==
    /\ exc = NoException
    /\ Len(frames) < MaxDepth
    /\ Entered < MaxBlocks
    /\ LET b == Entered + 1
       IN  \E ok \in BOOLEAN :
              IF ok
              THEN /\ calls' = Append(calls, LockCall(b))
                   /\ uiLocked' = TRUE
                   /\ frames' = Append(frames, b)
                   /\ exc' = NoException
                   /\ op' = [name |-> "locked_enter", block |-> b]
              ELSE /\ calls' = calls \o <<FailedLockCall(b), UnlockCall(b)>>
                   /\ uiLocked' = FALSE
                   /\ UNCHANGED frames
                   /\ exc' = ComError
                   /\ op' = [name |-> "lock_failed", block |-> b]
    /\ UNCHANGED <<ret, grid, remote, pc>>

EnterLocked ==
    /\ exc = NoException
    /\ Len(frames) < MaxDepth
    /\ Entered < MaxBlocks
    /\ LET b == Entered + 1
       IN  \E ok \in BOOLEAN :
              IF ok
              THEN /\ calls' = Append(calls, LockCall(b))
                   /\ uiLocked' = TRUE
                   /\ frames' = Append(frames, b)
                   /\ exc' = NoException
                   /\ op' = [name |-> "locked_enter", block |-> b]
              ELSE /\ calls' = Append(calls, FailedLockCall(b))
                   /\ UNCHANGED <<uiLocked, frames>>
                   /\ exc' = ComError
                   /\ op' = [name |-> "lock_failed", block |-> b]
    /\ UNCHANGED <<ret, grid, remote, pc>>

\* The code of the innermost open block raises.
BlockRaises ==
    /\ frames # <<>>
    /\ exc = NoException
    /\ exc' = BlockError
    /\ op' = [name |-> "raise", block |-> frames[Len(frames)]]
    /\ UNCHANGED <<ret, calls, grid, remote, lock, pc>>

\* The innermost open block is left, normally or by the exception in flight.
ExitLocked ==
    /\ frames # <<>>
    /\ LET b == frames[Len(frames)]
       IN  /\ frames' = SubSeq(frames, 1, Len(frames) - 1)
           /\ IF UnlocksOnExit(exc)
              THEN /\ calls' = Append(calls, UnlockCall(b))
                   /\ \E ok \in BOOLEAN :
                         /\ uiLocked' = IF ok THEN FALSE ELSE uiLocked
                         /\ exc' = Leaves(exc, IF ok THEN NoException ELSE ComError)
                         /\ op' = [name |-> "locked_exit", block |-> b,
                                   error |-> exc, unlocked |-> ok]
              ELSE /\ UNCHANGED <<calls, uiLocked>>
                   /\ exc' = Leaves(exc, NoException)
                   /\ op' = [name |-> "locked_exit", block |-> b,
                             error |-> exc, unlocked |-> FALSE]
    /\ UNCHANGED <<ret, grid, remote, pc>>

\* The exception in flight is caught, by an enclosing block or by the caller.
Catch ==
    /\ exc # NoException
    /\ exc' = NoException
    /\ op' = [name |-> "except", caught |-> exc]
    /\ UNCHANGED <<ret, calls, grid, remote, lock, pc>>

NextLock == EnterLocked \/ BlockRaises \/ ExitLocked \/ Catch

SpecLock == InitLock /\ [][NextLock]_vars

(***************************************************************************)
(* Claims about the scoped UI lock (checked under SpecLock).               *)
(***************************************************************************)
OpenBlocks == Range(frames)
IsSuffix(s, t) == Len(s) <= Len(t) /\ SubSeq(t, Len(t) - Len(s) + 1, Len(t)) = s

VKEY_ENTER == 0
VKEY_F8 == 8

\* start_transaction, send_vkey, set_field_by_id, set_checkbox_by_id: the
\* scripting call succeeds or its COM error leaves the method.
Unhandled(ok) == IF ok THEN NoException ELSE ComError

ProbeOrder == <<"ctxt", "txt", "cmb">>

\* A loop that keeps probing after a hit and ends with the last type found.
RECURSIVE LastFound(_, _)
LastFound(found, order) ==
    IF order = <<>> THEN ""
    ELSE IF order[Len(order)] \in found THEN order[Len(order)]
    ELSE LastFound(found, SubSeq(order, 1, Len(order) - 1))

RECURSIVE FirstFound(_, _)
FirstFound(found, order) ==
    IF order = <<>> THEN ""
    ELSE IF Head(order) \in found THEN Head(order)
    ELSE FirstFound(found, Tail(order))

FindByNameCall(name, type) == [call |-> "findByName", name |-> name, type |-> type]
SetTextCall(name, type, value) ==
    [call |-> "text=", name |-> name, type |-> type, value |-> value]

\* The findByName calls of the probe loop that ends at ftype ("" when the
\* loop runs to its end).
RECURSIVE Probes(_, _, _)
Probes(field_name, ftype, order) ==
    IF order = <<>> THEN <<>>
    ELSE <<FindByNameCall(field_name, Head(order))>>
         \o (IF Head(order) = ftype THEN <<>>
             ELSE Probes(field_name, ftype, Tail(order)))

\* set_field: `found` holds the type prefixes under which findByName finds
\* field_name, `writable` those of them whose control accepts the assignment
\* to .text.
set_field(found, writable, field_name, value, field_type) ==
    LET ftype == IF field_type # "" THEN field_type
                 ELSE FirstFound(found, ProbeOrder)
        looked == IF field_type # "" THEN <<FindByNameCall(field_name, field_type)>>
                  ELSE Probes(field_name, ftype, ProbeOrder)
        assigned == looked \o <<SetTextCall(field_name, ftype, value)>>
    IN  IF field_type # "" /\ field_type \notin found
        THEN [exc |-> ComError, wrote |-> "", calls |-> looked]
        ELSE IF ftype = ""
        THEN [exc |-> <<"ValueError">>, wrote |-> "", calls |-> looked]
        ELSE IF ftype \in writable
        THEN [exc |-> NoException, wrote |-> ftype, calls |-> assigned]
        ELSE [exc |-> ComError, wrote |-> "", calls |-> assigned]

SendVKeyCall(id, vkey) == [call |-> "sendVKey", id |-> id, vkey |-> vkey]

\* A send_vkey that takes the window from a handle kept since an earlier call.
send_vkey_cached_window(vkey, window_id) ==
    <<[call |-> "cached", id |-> window_id], SendVKeyCall(window_id, vkey)>>

\* send_vkey(vkey, window_id): the scripting calls it makes when the window
\* resolves.
send_vkey(vkey, window_id) ==
    <<FindByIdCall(window_id), SendVKeyCall(window_id, vkey)>>

UserArea == "wnd[0]/usr"

\* f"{search_id}/cntl.../shellcont/shell": an id built from two parts.
common_paths(search_id) ==
    << <<search_id, "/cntlRESULT_LIST/shellcont/shell">>,
       <<search_id, "/cntlCONTAINER/shellcont/shell">>,
       <<search_id, "/cntlGRID1/shellcont/shell">>,
       <<search_id, "/cntlGRID/shellcont/shell">>,
       <<search_id, "/cntlALV_CONTAINER/shellcont/shell">> >>

\* A loop that probes every path and keeps the last control it met.
RECURSIVE LastResolved(_, _)
LastResolved(scr, paths) ==
    IF paths = <<>> THEN [ret |-> None, exc |-> NoException, calls |-> <<>>]
    ELSE LET g == find_by_id(scr, Head(paths), FALSE)
             rest == LastResolved(scr, Tail(paths))
         IN  [ret |-> IF rest.ret # None THEN rest.ret ELSE g.ret,
              exc |-> NoException, calls |-> g.calls \o rest.calls]

\* for path in common_paths: the first control that is not None is returned.
RECURSIVE FirstResolved(_, _)
FirstResolved(scr, paths) ==
    IF paths = <<>> THEN [ret |-> None, exc |-> NoException, calls |-> <<>>]
    ELSE LET g == find_by_id(scr, Head(paths), FALSE)
             rest == FirstResolved(scr, Tail(paths))
         IN  IF g.ret # None THEN g
             ELSE [rest EXCEPT !.calls = g.calls \o @]

find_grid(scr, search_id) == FirstResolved(scr, common_paths(search_id))

(***************************************************************************)
(* The workflow helpers.  A helper is the sequence of its statements, the  *)
(* loops unrolled over the fields it was given; pc counts through it.      *)
(***************************************************************************)
Stmt(do, arg) == [do |-> do, arg |-> arg]

FieldsTable == "wnd[0]/usr/tblSAPLSE16HFIELDS_TABLE"
\* Ids are written as the sequence of their parts.
TableNameField == <<"wnd[0]/usr/ctxtGD-TAB">>
MaxLinesField == <<"wnd[0]/usr/txtGD-MAX_LINES">>

\* The statements of one pass of run_se16h's loop over the fields table.
RowStmts(field_cfg, idx) ==
    << Stmt("set_field_by_id", <<FieldsTable, "/ctxtGS_FIELDS-FIELDNAME", 0, idx>>) >>
    \o (IF field_cfg.group
        THEN << Stmt("set_checkbox_by_id", <<FieldsTable, "/chkGS_FIELDS-AGGR", 4, idx>>) >>
        ELSE <<>>)
    \o (IF field_cfg.sum
        THEN << Stmt("set_checkbox_by_id", <<FieldsTable, "/chkGS_FIELDS-SUM", 5, idx>>) >>
        ELSE <<>>)

RECURSIVE TableStmts(_, _)
TableStmts(fields, idx) ==
    IF idx >= Len(fields) THEN <<>>
    ELSE RowStmts(fields[idx + 1], idx) \o TableStmts(fields, idx + 1)

RECURSIVE ValueStmts(_)
ValueStmts(fields) ==
    IF fields = <<>> THEN <<>>
    ELSE (IF Head(fields).has_value
          THEN << Stmt("set_field_or_pass", Head(fields).name) >>
          ELSE <<>>)
         \o ValueStmts(Tail(fields))

RECURSIVE NamesOf(_)
NamesOf(fields) ==
    IF fields = <<>> THEN <<>> ELSE <<Head(fields).name>> \o NamesOf(Tail(fields))

\* The columns of the field list without the COUNT column.
read_cols_without_count(fields) == NamesOf(fields)

read_cols(fields) ==
    NamesOf(fields)
    \o (IF \E i \in 1..Len(fields) : fields[i].group THEN <<"COUNT">> ELSE <<>>)

\* A harvest that reads the status bar before it looks for a popup.
HarvestStatusFirst(columns, max_rows) ==
    << Stmt("check_statusbar_error", ""),
       Stmt("handle_popup", ""),
       Stmt("find_grid", ""),
       Stmt("grid_read_all", [columns |-> columns, max_rows |-> max_rows]) >>

\* The tail both helpers share: popup, status, grid location, harvest.
Harvest(columns, max_rows) ==
    << Stmt("handle_popup", ""),
       Stmt("check_statusbar_error", ""),
       Stmt("find_grid", ""),
       Stmt("grid_read_all", [columns |-> columns, max_rows |-> max_rows]) >>

run_se16h(inv) ==
    << Stmt("start_transaction", "SE16H"),
       Stmt("set_field_by_id", TableNameField),
       Stmt("send_vkey", VKEY_ENTER) >>
    \o TableStmts(inv.fields, 0)
    \o << Stmt("send_vkey", VKEY_ENTER) >>
    \o ValueStmts(inv.fields)
    \o (IF inv.max_rows > 0
        THEN << Stmt("set_field_by_id_or_pass", MaxLinesField) >>
        ELSE <<>>)
    \o << Stmt("send_vkey", VKEY_F8) >>
    \o Harvest(Columns(read_cols(inv.fields)), inv.max_rows)

\* An execute key that ignores what the caller asked for.
ExecuteKeyFixed(inv) == VKEY_F8

\* execute_vkey: int = SapSession.VKEY_F8
ExecuteKey(inv) ==
    IF inv.execute_vkey = Omitted THEN VKEY_F8 ELSE inv.execute_vkey.val

run_transaction_report(inv) ==
    << Stmt("start_transaction", inv.tcode) >>
    \o [i \in 1..Len(inv.selection_fields) |->
           Stmt("set_field_or_txt", inv.selection_fields[i].name)]
    \o << Stmt("send_vkey", ExecuteKey(inv)) >>
    \o Harvest(inv.read_columns, inv.max_rows)

Program(inv) ==
    IF inv.name = "run_se16h" THEN run_se16h(inv) ELSE run_transaction_report(inv)

(***************************************************************************)
(* The calls a helper may be given.                                        *)
(***************************************************************************)
FieldName(i) ==
    CASE i = 1 -> "BUKRS"
      [] i = 2 -> "GJAHR"
      [] OTHER -> "BELNR"

FieldValue(i) ==
    CASE i = 1 -> "1000"
      [] i = 2 -> "2024"
      [] OTHER -> "*"

SelectionDicts ==
    {[i \in 1..n |-> [name |-> FieldName(i), value |-> FieldValue(i)]] : n \in 0..MaxFields}

FieldCfgs(i) ==
    {[name |-> FieldName(i), group |-> FALSE, sum |-> FALSE, has_value |-> FALSE,
      value |-> ""],
     [name |-> FieldName(i), group |-> TRUE, sum |-> FALSE, has_value |-> FALSE,
      value |-> ""],
     [name |-> FieldName(i), group |-> FALSE, sum |-> TRUE, has_value |-> TRUE,
      value |-> FieldValue(i)]}

FieldLists ==
    UNION {{f \in [1..n -> UNION {FieldCfgs(i) : i \in 1..n}] :
               \A i \in 1..n : f[i] \in FieldCfgs(i)} : n \in 0..MaxFields}

RowCaps == 0..1

TransactionReports ==
    [name : {"run_transaction_report"}, tcode : {"FBL1N"},
     selection_fields : SelectionDicts,
     execute_vkey : {Omitted, PyInt(VKEY_ENTER)},
     read_columns : {NoColumns, Columns(<<"GJAHR">>)}, max_rows : RowCaps]

Se16hRuns ==
    [name : {"run_se16h"}, table : {"BSIK"}, fields : FieldLists, max_rows : RowCaps]

\* The result grids of the workflow: one or two columns, and the cells of a
\* row all hold "B" or all fail.
ResultGrids ==
    {g \in GridsOver({Cell(<<66>>), Unreadable}) :
        /\ g.order \in {<<"BUKRS">>, <<"BUKRS", "GJAHR">>}
        /\ \A i \in 1..Len(g.rows) : \A c, d \in Range(g.order) :
              g.rows[i][c].ok = g.rows[i][d].ok}

\* The status bars a helper meets after its execute key.
ResultStatusBars == [text : MessageTexts, type : {"S", "W", "E", "A"}]

GridScreens == SUBSET Range(common_paths(UserArea))

(***************************************************************************)
(* One run of a workflow helper, statement by statement.                   *)
(***************************************************************************)
InitFlow ==
    /\ op \in TransactionReports \cup Se16hRuns
    /\ pc = 1
    /\ calls = <<>>
    /\ ret = None
    /\ exc = NoException
    /\ sbar = NoStatus
    /\ grid = NoGrid
    /\ screen = {}
    /\ broken = {}
    /\ controls = NoControls
    /\ uiLocked = FALSE
    /\ frames = <<>>

At(do) == pc > 0 /\ Program(op)[pc].do = do
Arg == Program(op)[pc].arg
\* A call of a SapSession method: its argument, and what it gave back where
\* the helper looks at that.
Called(method, arg) == [call |-> method, arg |-> arg, gave |-> ""]
Gave(method, arg, value) == [call |-> method, arg |-> arg, gave |-> value]

Proceeds(made) ==
    /\ calls' = calls \o made
    /\ pc' = pc + 1
    /\ UNCHANGED <<ret, exc>>

Raises(made, error) ==
    /\ calls' = calls \o made
    /\ pc' = 0
    /\ ret' = NoReturn
    /\ exc' = error

Returns(made, value) ==
    /\ calls' = calls \o made
    /\ pc' = 0
    /\ ret' = value
    /\ exc' = NoException

\* A statement that goes on to the next one when its call fails.
BareTolerant(method) ==
    /\ At(method)
    /\ \E ok \in BOOLEAN :
          IF Unhandled(ok) = NoException
          THEN Proceeds(<<Called(method, Arg)>>)
          ELSE Proceeds(<<Gave(method, Arg, "raised")>>)
    /\ UNCHANGED <<remote, grid, lock, op>>

\* A statement whose call has no handler around it.
Bare(method) ==
    /\ At(method)
    /\ \E ok \in BOOLEAN :
          IF Unhandled(ok) = NoException
          THEN Proceeds(<<Called(method, Arg)>>)
          ELSE Raises(<<Gave(method, Arg, "raised")>>, Unhandled(ok))
    /\ UNCHANGED <<remote, grid, lock, op>>

StartTransaction == Bare("start_transaction")
SetFieldById == Bare("set_field_by_id")
SetCheckboxById == Bare("set_checkbox_by_id")

\* sap.send_vkey(vkey): the window is looked up, then the key is sent to it;
\* either scripting call may fail, and nothing handles the failure.
SendVKey ==
    /\ At("send_vkey")
    /\ \E reached \in 1..3 :
          LET did == SubSeq(send_vkey(Arg, MainWindow), 1, Min(reached, 2))
              made == <<[call |-> "send_vkey", arg |-> Arg,
                         gave |-> IF reached = 3 THEN "" ELSE "raised", did |-> did]>>
          IN  IF reached = 3 THEN Proceeds(made) ELSE Raises(made, ComError)
    /\ UNCHANGED <<remote, grid, lock, op>>

\* run_transaction_report's fill loop: set_field, on failure set_field with
\* the type "txt", on failure a warning.
Outcome(r) == IF r.exc = NoException THEN "set" ELSE "raised"

SetFieldOrTxt ==
    /\ At("set_field_or_txt")
    /\ \E found \in SUBSET Range(ProbeOrder) : \E writable \in SUBSET found :
          LET first == set_field(found, writable, Arg, "", "")
              second == set_field(found, writable, Arg, "", "txt")
          IN  IF first.exc = NoException
              THEN Proceeds(<<Gave("set_field", <<Arg, "">>, Outcome(first))>>)
              ELSE Proceeds(<<Gave("set_field", <<Arg, "">>, Outcome(first)),
                              Gave("set_field", <<Arg, "txt">>, Outcome(second))>>)
    /\ UNCHANGED <<remote, grid, lock, op>>

\* run_se16h's selection values: set_field, its failure is passed over.
\* A selection value whose failure to be set ends the helper.
SetFieldOrRaise ==
    /\ At("set_field_or_pass")
    /\ \E found \in SUBSET Range(ProbeOrder) : \E writable \in SUBSET found :
          LET r == set_field(found, writable, Arg, "", "")
              made == <<Gave("set_field", <<Arg, "">>, Outcome(r))>>
          IN  IF r.exc = NoException THEN Proceeds(made) ELSE Raises(made, r.exc)
    /\ UNCHANGED <<remote, grid, lock, op>>

SetFieldOrPass ==
    /\ At("set_field_or_pass")
    /\ \E found \in SUBSET Range(ProbeOrder) : \E writable \in SUBSET found :
          LET r == set_field(found, writable, Arg, "", "")
          IN  Proceeds(<<Gave("set_field", <<Arg, "">>, Outcome(r))>>)
    /\ UNCHANGED <<remote, grid, lock, op>>

\* run_se16h's row limit: set_field_by_id, its failure is passed over.
SetFieldByIdOrPass ==
    /\ At("set_field_by_id_or_pass")
    /\ \E ok \in BOOLEAN :
          Proceeds(<<Gave("set_field_by_id", Arg, Outcome([exc |-> Unhandled(ok)]))>>)
    /\ UNCHANGED <<remote, grid, lock, op>>

Popup ==
    /\ At("handle_popup")
    /\ \E scr \in Screens : \E brk \in SUBSET (scr \cap Buttons) :
          LET r == handle_popup(scr, brk, DismissButton, TRUE)
          IN  IF r.exc = NoException
              THEN Proceeds(<<Called("handle_popup", "")>>)
              ELSE Raises(<<Called("handle_popup", "")>>, r.exc)
    /\ UNCHANGED <<remote, grid, lock, op>>

\* err = sap.check_statusbar_error(); if err: return []
Status ==
    /\ At("check_statusbar_error")
    /\ \E scr \in {{}, {MainWindow, StatusBarId}}, sb \in ResultStatusBars :
          LET r == check_statusbar_error(scr, sb)
              made == <<Called("check_statusbar_error", "")>>
          IN  IF r.exc # NoException
              THEN Raises(made, r.exc) /\ UNCHANGED sbar
              ELSE /\ sbar' = sb
                   /\ IF Truthy(r.ret)
                      THEN Returns(made, List(<<>>))
                      ELSE Proceeds(made)
    /\ UNCHANGED <<screen, broken, controls, grid, lock, op>>

\* A grid lookup whose miss is an error of the helper.
FindGridOrRaise ==
    /\ At("find_grid")
    /\ \E scr \in GridScreens :
          LET g == find_grid(scr, UserArea).ret
              made == <<[call |-> "find_grid", arg |-> UserArea,
                         gave |-> IF g = None THEN "None" ELSE "control",
                         resolving |-> scr # {}]>>
          IN  IF g = None
              THEN Raises(made, <<"LookupError">>)
              ELSE Proceeds(made)
    /\ UNCHANGED <<remote, grid, lock, op>>

\* grid = sap.find_grid(); if grid is None: return []
FindGrid ==
    /\ At("find_grid")
    /\ \E scr \in GridScreens :
          LET g == find_grid(scr, UserArea).ret
              made == <<[call |-> "find_grid", arg |-> UserArea,
                         gave |-> IF g = None THEN "None" ELSE "control",
                         resolving |-> scr # {}]>>
          IN  IF g = None
              THEN Returns(made, List(<<>>))
              ELSE Proceeds(made)
    /\ UNCHANGED <<remote, grid, lock, op>>

\* return sap.grid_read_all(grid, columns=..., max_rows=max_rows)
ReadGrid ==
    /\ At("grid_read_all")
    /\ \E g \in ResultGrids :
          LET r == grid_read_all(g, Arg.columns, Arg.max_rows)
          IN  /\ grid' = g
              /\ Returns(<<Called("grid_read_all", Arg)>>, r.ret)
    /\ UNCHANGED <<remote, lock, op>>

NextFlow ==
    \/ StartTransaction
    \/ SetFieldById
    \/ SetCheckboxById
    \/ SendVKey
    \/ SetFieldOrTxt
    \/ SetFieldOrPass
    \/ SetFieldByIdOrPass
    \/ Popup
    \/ Status
    \/ FindGrid
    \/ ReadGrid

SpecFlow == InitFlow /\ [][NextFlow]_vars

(***************************************************************************)
(* Claims about the workflow helpers (checked under SpecFlow).             *)
(***************************************************************************)
Made(method) == {i \in 1..Len(calls) : calls[i].call = method}
StatusWasRead ==
    /\ Made("check_statusbar_error") # {}
    /\ ~(pc = 0 /\ exc # NoException /\ calls[Len(calls)].call = "check_statusbar_error")

\* C1: whenever the status bar read after the execute key has MessageType E
\* or A, whatever its text (the empty text included), the helper returns an
\* empty list and neither looks for a grid nor reads one.
C1_ErrorStatusReturnsEmpty ==
    (StatusWasRead /\ sbar.type \in {"E", "A"})
    => /\ pc = 0
       /\ exc = NoException
       /\ ret = List(<<>>)
       /\ Made("find_grid") = {}
       /\ Made("grid_read_all") = {}

GridWasFound == \E i \in Made("find_grid") : calls[i].gave = "control"

\* C6: run_transaction_report, called without a row cap and without a column
\* list, once the status read is not E or A and a grid is found, goes on to
\* read it and returns one record per grid row, in row order, each keyed by
\* exactly the grid's column ids and holding that row's cells.
C6_ReportReturnsGridRows ==
    (/\ op.name = "run_transaction_report"
     /\ op.max_rows = 0
     /\ op.read_columns = NoColumns
     /\ StatusWasRead
     /\ sbar.type \notin {"E", "A"}
     /\ GridWasFound)
    => IF pc > 0
       THEN At("grid_read_all")
       ELSE /\ exc = NoException
            /\ ret.kind = "list"
            /\ Len(ret.val) = RowCount(grid)
            /\ \A row \in RowsOf(grid) :
                  /\ DOMAIN ret.val[row + 1] = Range(grid.order)
                  /\ \A col \in Range(grid.order) :
                        ret.val[row + 1][col] =
                            IF grid.rows[row + 1][col].ok
                            THEN grid.rows[row + 1][col].text
                            ELSE <<>>

\* The report for BUKRS and GJAHR, executed with the default key, has returned the rows
\* of a grid of MaxRows readable rows and two columns.
C6_Witness ==
    /\ op.name = "run_transaction_report"
    /\ op.max_rows = 0
    /\ op.read_columns = NoColumns
    /\ op.execute_vkey = Omitted
    /\ Len(op.selection_fields) = 2
    /\ sbar.type = "S"
    /\ pc = 0
    /\ Made("grid_read_all") # {}
    /\ RowCount(grid) = MaxRows
    /\ Len(grid.order) = 2
    /\ \A row \in RowsOf(grid) : \A col \in Range(grid.order) : grid.rows[row + 1][col].ok
    /\ Len(ret.val) = MaxRows

\* The protocol step a call belongs to.  The Enter keys of run_se16h move
\* between its parameter screens and belong to the parameter step.
Phase(c) ==
    CASE c.call = "start_transaction" -> 1
      [] c.call \in {"set_field", "set_field_by_id", "set_checkbox_by_id"} -> 2
      [] c.call = "send_vkey" ->
            IF op.name = "run_se16h" /\ c.arg = VKEY_ENTER THEN 2 ELSE 3
      [] c.call = "handle_popup" -> 4
      [] c.call = "check_statusbar_error" -> 5
      [] c.call = "find_grid" -> 6
      [] c.call = "grid_read_all" -> 7

InPhase(n) == {i \in 1..Len(calls) : Phase(calls[i]) = n}

\* C10: the calls of a helper run follow the protocol order (transaction
\* start, parameter writes, execute key, popup check, status read, grid
\* location, grid read), none before an earlier step's, and the transaction
\* start, the execute key, the popup check and the status read are each
\* made at most once.
C10_ProtocolOrder ==
    /\ \A i \in 1..(Len(calls) - 1) : Phase(calls[i]) <= Phase(calls[i + 1])
    /\ \A n \in {1, 3, 4, 5} : Cardinality(InPhase(n)) <= 1

\* A run of run_se16h with a grouped field has gone through every step.
C10_Witness ==
    /\ op.name = "run_se16h"
    /\ pc = 0
    /\ \A n \in 1..7 : InPhase(n) # {}
    /\ Made("set_checkbox_by_id") # {}

\* The names a helper fills selection values for, in the order of its loop.
RECURSIVE ValuedNames(_)
ValuedNames(fields) ==
    IF fields = <<>> THEN <<>>
    ELSE (IF Head(fields).has_value THEN <<Head(fields).name>> ELSE <<>>)
         \o ValuedNames(Tail(fields))

FillNames ==
    IF op.name = "run_se16h" THEN ValuedNames(op.fields)
    ELSE [i \in 1..Len(op.selection_fields) |-> op.selection_fields[i].name]

IsFirstAttempt(c) == c.call = "set_field" /\ c.arg[2] = ""
FirstAttempts == SelectSeq(calls, IsFirstAttempt)
Attempted == [i \in 1..Len(FirstAttempts) |-> FirstAttempts[i].arg[1]]

\* The set_field calls after which a field is left unset: the one attempt of
\* run_se16h, the retry under "txt" of run_transaction_report.
FailedFill ==
    {i \in Made("set_field") :
        /\ calls[i].gave = "raised"
        /\ op.name = "run_transaction_report" => calls[i].arg[2] = "txt"}

\* The send_vkey calls of the execute step: every one of
\* run_transaction_report, those after the two Enter keys of run_se16h.
ExecuteCalls ==
    {i \in Made("send_vkey") :
        op.name = "run_se16h" => Cardinality({j \in Made("send_vkey") : j < i}) >= 2}

IsPrefix(s, t) == Len(s) <= Len(t) /\ SubSeq(t, 1, Len(s)) = s

\* C11: once a selection field could not be set under any attempted control
\* type, the helper does not end in the fill step (it ends only after the
\* execute key was sent), the fields attempted are the fields of the mapping
\* in order with none left out, and all of them were attempted when the
\* execute key is sent.
C11_UnsettableFieldIsSkipped ==
    FailedFill # {}
    => /\ pc = 0 => ExecuteCalls # {}
       /\ IsPrefix(Attempted, FillNames)
       /\ ExecuteCalls # {} => Attempted = FillNames

\* A report whose first of two fields could be set under no type has gone on
\* to the second field, sent the execute key and returned.
C11_Witness ==
    /\ op.name = "run_transaction_report"
    /\ Len(op.selection_fields) = 2
    /\ \E i \in FailedFill : calls[i].arg[1] = op.selection_fields[1].name
    /\ Attempted = FillNames
    /\ ExecuteCalls # {}
    /\ pc = 0
    /\ exc = NoException

NoAddressResolved == \E i \in Made("find_grid") : ~calls[i].resolving

HarvestDone == pc = 0 /\ Made("grid_read_all") # {}

\* C13: a helper that reaches the harvest returns what grid_read_all returns
\* for its max_rows: min(RowCount, max_rows) records when max_rows > 0 and
\* RowCount records when max_rows = 0, the k-th record holding the cells of
\* the k-th row of the grid (a cell that cannot be read is empty).
C13_RowCapBoundsRecords ==
    HarvestDone
    => LET read == calls[Len(calls)].arg
           cols == IF read.columns = NoColumns THEN grid.order ELSE read.columns.val
           n == IF op.max_rows > 0 THEN Min(RowCount(grid), op.max_rows)
                ELSE RowCount(grid)
       IN  /\ read.max_rows = op.max_rows
           /\ exc = NoException
           /\ ret.kind = "list"
           /\ Len(ret.val) = n
           /\ \A k \in 1..n :
                 /\ DOMAIN ret.val[k] = Range(cols)
                 /\ \A col \in Range(cols) :
                       ret.val[k][col] =
                           IF col \in Range(grid.order) /\ grid.rows[k][col].ok
                           THEN grid.rows[k][col].text
                           ELSE <<>>

\* A cap of one row has cut a grid of MaxRows rows down to its first row,
\* which is readable while the last row is not.
C13_Witness ==
    /\ HarvestDone
    /\ op.name = "run_transaction_report"
    /\ op.read_columns = NoColumns
    /\ op.max_rows = 1
    /\ RowCount(grid) = MaxRows
    /\ \A col \in Range(grid.order) :
          grid.rows[1][col].ok /\ ~grid.rows[MaxRows][col].ok
    /\ Len(ret.val) = 1
    /\ \A col \in Range(grid.order) : ret.val[1][col] = <<66>>

\* The key the caller asked for: execute_vkey of run_transaction_report when
\* given, F8 otherwise (run_se16h takes no key).
Wanted ==
    IF op.name = "run_transaction_report" /\ op.execute_vkey # Omitted
    THEN op.execute_vkey.val
    ELSE VKEY_F8

NameField == "wnd[0]/usr/txtNAME"
FlagField == "wnd[0]/usr/chkFLAG"
AbsentField == "wnd[0]/usr/txtNONE"
FieldIds == {NameField, FlagField}
FieldValues == {"", "1000"}

TextField(text, changeable) ==
    [type |-> "GuiTextField", text |-> text, selected |-> FALSE,
     changeable |-> changeable]
CheckBox(selected) ==
    [type |-> "GuiCheckBox", text |-> "Flag", selected |-> selected,
     changeable |-> TRUE]
PushButton ==
    [type |-> "GuiButton", text |-> "Execute", selected |-> FALSE,
     changeable |-> TRUE]

TypedControls ==
    {TextField(t, c) : <<t, c>> \in FieldValues \X BOOLEAN}
        \cup {CheckBox(b) : b \in BOOLEAN} \cup {PushButton}

ControlMaps == UNION {[ids -> TypedControls] : ids \in SUBSET FieldIds}

AttributeError == <<"AttributeError">>

\* element.text = value
PutText(ctls, id, value, accepted) ==
    IF (ctls[id].type = "GuiTextField" /\ ctls[id].changeable)
           \/ (ctls[id].type # "GuiTextField" /\ accepted)
    THEN [exc |-> NoException, controls |-> [ctls EXCEPT ![id].text = value]]
    ELSE [exc |-> ComError, controls |-> ctls]

\* set_field_by_id that reports success without writing.
set_field_by_id_unsent(ctls, element_id, value, accepted) ==
    IF element_id \notin DOMAIN ctls
    THEN [ret |-> NoReturn, exc |-> ComError, controls |-> ctls]
    ELSE [ret |-> None, exc |-> NoException, controls |-> ctls]

set_field_by_id(ctls, element_id, value, accepted) ==
    IF element_id \notin DOMAIN ctls
    THEN [ret |-> NoReturn, exc |-> ComError, controls |-> ctls]
    ELSE LET w == PutText(ctls, element_id, value, accepted)
         IN  [ret |-> IF w.exc = NoException THEN None ELSE NoReturn,
              exc |-> w.exc, controls |-> w.controls]

get_field_by_id(ctls, element_id) ==
    IF element_id \notin DOMAIN ctls
    THEN [ret |-> NoReturn, exc |-> ComError, controls |-> ctls]
    ELSE [ret |-> Str(ctls[element_id].text), exc |-> NoException, controls |-> ctls]

set_checkbox_by_id(ctls, element_id, checked) ==
    IF element_id \notin DOMAIN ctls
    THEN [ret |-> NoReturn, exc |-> ComError, controls |-> ctls]
    ELSE IF ctls[element_id].type # "GuiCheckBox"
    THEN [ret |-> NoReturn, exc |-> AttributeError, controls |-> ctls]
    ELSE [ret |-> None, exc |-> NoException,
          controls |-> [ctls EXCEPT ![element_id].selected = checked]]

\* press_button(element_id=...); `shown` is the screen the press leads to.
press_button(ctls, element_id, shown) ==
    IF element_id \notin DOMAIN ctls
    THEN [ret |-> NoReturn, exc |-> ComError, controls |-> ctls]
    ELSE IF ctls[element_id].type # "GuiButton"
    THEN [ret |-> NoReturn, exc |-> AttributeError, controls |-> ctls]
    ELSE [ret |-> None, exc |-> NoException, controls |-> shown]

InitField ==
    /\ controls \in ControlMaps
    /\ op = Idle
    /\ ret = None
    /\ exc = NoException
    /\ calls = <<>>
    /\ grid = NoGrid
    /\ screen = {}
    /\ sbar = NoStatus
    /\ broken = {}
    /\ uiLocked = FALSE
    /\ frames = <<>>
    /\ pc = 0

NoControl == [type |-> ""]
NoWrite == [wrote |-> FALSE]

\* The control the id resolved to when the accessor was called.
Target(element_id) ==
    IF element_id \in DOMAIN controls THEN controls[element_id] ELSE NoControl

\* One accessor call: `follows` is the text write this call comes right after.
Accessor(name, element_id, value, r, follows) ==
    /\ op' = [name |-> name, element_id |-> element_id, value |-> value,
              target |-> Target(element_id), changed |-> r.controls # controls,
              follows |-> follows]
    /\ ret' = r.ret
    /\ exc' = r.exc
    /\ controls' = r.controls
    /\ UNCHANGED <<screen, sbar, broken, grid, calls, lock, pc>>

\* The write a read made now would come right after.
LastWrite ==
    IF op # Idle /\ op.name = "set_field_by_id" /\ exc = NoException
    THEN [wrote |-> TRUE, element_id |-> op.element_id, value |-> op.value,
          over |-> op.target.text]
    ELSE NoWrite

CallSetFieldById ==
    \E element_id \in FieldIds \cup {AbsentField}, value \in FieldValues,
       accepted \in BOOLEAN :
        Accessor("set_field_by_id", element_id, value,
                 set_field_by_id(controls, element_id, value, accepted), NoWrite)

CallGetFieldById ==
    \E element_id \in FieldIds \cup {AbsentField} :
        Accessor("get_field_by_id", element_id, "",
                 get_field_by_id(controls, element_id), LastWrite)

CallSetCheckboxById ==
    \E element_id \in FieldIds \cup {AbsentField}, checked \in BOOLEAN :
        Accessor("set_checkbox_by_id", element_id, checked,
                 set_checkbox_by_id(controls, element_id, checked), NoWrite)

CallPressButton ==
    \E element_id \in FieldIds \cup {AbsentField}, shown \in ControlMaps :
        Accessor("press_button", element_id, "",
                 press_button(controls, element_id, shown), NoWrite)

NextField ==
    \/ CallSetFieldById
    \/ CallGetFieldById
    \/ CallSetCheckboxById
    \/ CallPressButton

SpecField == InitField /\ [][NextField]_vars

(***************************************************************************)
(* Claims about the typed accessors (checked under SpecField).             *)
(***************************************************************************)
\* The control type an accessor is meant for.
MeantFor(name) ==
    CASE name \in {"set_field_by_id", "get_field_by_id"} -> "GuiTextField"
      [] name = "set_checkbox_by_id" -> "GuiCheckBox"
      [] name = "press_button" -> "GuiButton"

\* C15: an accessor called on a control that is present but of another type
\* than the accessor is meant for fails with TypeMismatch and changes no
\* control.
C15_IncompatibleIsTypeMismatch ==
    (/\ op # Idle
     /\ op.target # NoControl
     /\ op.target.type # MeantFor(op.name))
    => /\ exc = <<"TypeMismatch">>
       /\ ~op.changed

\* C16: set_field_by_id on a changeable text field returns normally, and a
\* get_field_by_id of the same id that comes right after a set_field_by_id
\* that returned normally returns the value written.
C16_WriteVisibleToNextRead ==
    /\ (/\ op # Idle
        /\ op.name = "set_field_by_id"
        /\ op.target # NoControl
        /\ op.target.type = "GuiTextField"
        /\ op.target.changeable)
       => exc = NoException /\ controls[op.element_id].text = op.value
    /\ (/\ op # Idle
        /\ op.name = "get_field_by_id"
        /\ op.follows.wrote
        /\ op.follows.element_id = op.element_id)
       => exc = NoException /\ ret = Str(op.follows.value)

\* "1000" was written over the empty text of a text field and read back.
C16_Witness ==
    /\ op # Idle
    /\ op.name = "get_field_by_id"
    /\ op.target.type = "GuiTextField"
    /\ op.follows.wrote
    /\ op.follows.element_id = op.element_id
    /\ op.follows.over = ""
    /\ op.follows.value = "1000"
    /\ ret = Str("1000")

(***************************************************************************)
(* The table reader.  A cell of a dynpro table control is a control of its *)
(* own, addressed by the table id, a type prefix, the column name and the  *)
(* row; controls maps the cell ids of the screen to cells, and the text of *)
(* a cell may or may not be readable.                                      *)
(***************************************************************************)
TableId == "wnd[0]/usr/tblSAPLSE16HFIELDS_TABLE"
TableColumn == "GS_FIELDS-FIELDNAME"
TableRows == 0..1

\* f"{table_id}/{prefix}{col_name}[0,{row}]"
CellId(table_id, prefix, col_name, row) == <<table_id, "/", prefix, col_name, 0, row>>

CellIds ==
    {CellId(TableId, prefix, TableColumn, row) :
        <<prefix, row>> \in {"ctxt", "txt"} \X TableRows}

TableCells == [readable : BOOLEAN, text : {"BUKRS", "GJAHR"}]
CellMaps == UNION {[ids -> TableCells] : ids \in SUBSET CellIds}

\* cell = findById(id); return cell.text -- inside a try block: the text, or
\* nothing when either scripting call fails.
TextInTry(ctls, id) ==
    IF id \notin DOMAIN ctls
    THEN [ok |-> FALSE, calls |-> <<FindByIdCall(id)>>]
    ELSE IF ~ctls[id].readable
    THEN [ok |-> FALSE, calls |-> <<FindByIdCall(id), ReadCall(id)>>]
    ELSE [ok |-> TRUE, text |-> ctls[id].text,
          calls |-> <<FindByIdCall(id), ReadCall(id)>>]

\* table_read_cell that tries the txt prefix before the ctxt prefix.
table_read_cell_txt_first(ctls, table_id, row, col_name) ==
    LET first == TextInTry(ctls, CellId(table_id, "txt", col_name, row))
        second == TextInTry(ctls, CellId(table_id, "ctxt", col_name, row))
    IN  IF first.ok
        THEN [ret |-> Str(first.text), exc |-> NoException, calls |-> first.calls]
        ELSE IF second.ok
        THEN [ret |-> Str(second.text), exc |-> NoException,
              calls |-> first.calls \o second.calls]
        ELSE [ret |-> Str(""), exc |-> NoException,
              calls |-> first.calls \o second.calls]

table_read_cell(ctls, table_id, row, col_name) ==
    LET first == TextInTry(ctls, CellId(table_id, "ctxt", col_name, row))
        second == TextInTry(ctls, CellId(table_id, "txt", col_name, row))
    IN  IF first.ok
        THEN [ret |-> Str(first.text), exc |-> NoException, calls |-> first.calls]
        ELSE IF second.ok
        THEN [ret |-> Str(second.text), exc |-> NoException,
              calls |-> first.calls \o second.calls]
        ELSE [ret |-> Str(""), exc |-> NoException,
              calls |-> first.calls \o second.calls]

InitTable ==
    /\ controls \in CellMaps
    /\ op = Idle
    /\ ret = None
    /\ exc = NoException
    /\ calls = <<>>
    /\ grid = NoGrid
    /\ screen = {}
    /\ sbar = NoStatus
    /\ broken = {}
    /\ uiLocked = FALSE
    /\ frames = <<>>
    /\ pc = 0

TableReadCell ==
    /\ op = Idle
    /\ \E row \in TableRows :
          /\ op' = [name |-> "table_read_cell", table_id |-> TableId, row |-> row,
                    col_name |-> TableColumn]
          /\ Result(table_read_cell(controls, TableId, row, TableColumn))
    /\ UNCHANGED <<remote, grid, lock, pc>>

NextTable == TableReadCell

SpecTable == InitTable /\ [][NextTable]_vars

(***************************************************************************)
(* Claims about the table reader (checked under SpecTable).                *)
(***************************************************************************)
CellOf(prefix) == CellId(op.table_id, prefix, op.col_name, op.row)
Readable(id) == id \in DOMAIN controls /\ controls[id].readable
CallsOn(id) == {i \in 1..Len(calls) : calls[i].id = id}

\* C17: table_read_cell looks the cell up under ctxt first and returns its
\* text without touching the txt cell; only when the lookup or the read of
\* the ctxt cell fails does it look the cell up under txt, after the ctxt
\* one, and return that text; when both fail it returns "".  It never raises.
C17_CtxtThenTxtThenEmpty ==
    op.name = "table_read_cell"
    => /\ exc = NoException
       /\ calls[1] = FindByIdCall(CellOf("ctxt"))
       /\ Readable(CellOf("ctxt"))
              => /\ ret = Str(controls[CellOf("ctxt")].text)
                 /\ CallsOn(CellOf("txt")) = {}
       /\ (~Readable(CellOf("ctxt")) /\ Readable(CellOf("txt")))
              => /\ ret = Str(controls[CellOf("txt")].text)
                 /\ \A i \in CallsOn(CellOf("ctxt")), j \in CallsOn(CellOf("txt")) : i < j
       /\ (~Readable(CellOf("ctxt")) /\ ~Readable(CellOf("txt")))
              => ret = Str("")

\* The ctxt cell of row 1 is there but its text cannot be read; the text of
\* the txt cell, which differs from the ctxt cell's, has been returned.
C17_Witness ==
    /\ op.name = "table_read_cell"
    /\ op.row = 1
    /\ CellOf("ctxt") \in DOMAIN controls
    /\ ~Readable(CellOf("ctxt"))
    /\ Readable(CellOf("txt"))
    /\ controls[CellOf("txt")].text # controls[CellOf("ctxt")].text
    /\ ret = Str(controls[CellOf("txt")].text)
    /\ Len(calls) = 4

(***************************************************************************)
(* The screen inventory.  controls is the control tree below the container *)
(* explore_screen is given: its children, the children of those that are   *)
(* containers, and whether a control lies below one of these.  A control   *)
(* is named by its path of child indexes.  Reading a property of a control *)
(* may fail: `fails` names the property of the control that does ("Name"   *)
(* stands for Id, Type and Name, which are read together), and             *)
(* ContainerType is "yes", "no" or fails.                                  *)
(***************************************************************************)
SubChildren ==
    {[fails |-> f, below |-> 0] : f \in {"", "Name", "Text"}}
        \cup {[fails |-> "", below |-> 1]}

SubLists == UNION {[1..k -> SubChildren] : k \in 0..(MaxChildren - 1)}

ChildFails == {"", "Name", "Text", "Changeable"}

Children ==
    {[fails |-> f, container |-> c, children |-> <<>>] :
        <<f, c>> \in ChildFails \X {"no", "fails"}}
    \cup {[fails |-> f, container |-> "yes", children |-> subs] :
        <<f, subs>> \in ChildFails \X SubLists}

Trees ==
    {[present |-> FALSE, children |-> <<>>]}
    \cup {[present |-> TRUE, children |-> cs] :
             cs \in UNION {[1..k -> Children] : k \in 0..MaxChildren}}

TypeOf(control) ==
    IF "container" \in DOMAIN control /\ control.container = "yes"
    THEN "GuiSimpleContainer"
    ELSE "GuiTextField"

\* info = {"id": child.Id, "type": child.Type, "name": child.Name}, then
\* text and changeable, each "" or None when its read fails.
Info(child, path) ==
    [id |-> path, type |-> TypeOf(child), name |-> "FIELD",
     text |-> IF child.fails = "Text" THEN "" ELSE "Value",
     changeable |-> IF child.fails = "Changeable" THEN None ELSE Bool(TRUE)]

\* sub_info: like info, without changeable.
SubInfo(sc, path) ==
    [id |-> path, type |-> TypeOf(sc), name |-> "FIELD",
     text |-> IF sc.fails = "Text" THEN "" ELSE "Value"]

\* A scan of the sub-children that also descends into what lies below them.
RECURSIVE ScanSubsDeep(_, _, _)
ScanSubsDeep(subs, i, j) ==
    IF j >= Len(subs) THEN <<>>
    ELSE IF subs[j + 1].fails = "Name" THEN <<>>
    ELSE <<SubInfo(subs[j + 1], <<i, j>>)>>
         \o [k \in 1..subs[j + 1].below |->
                SubInfo([fails |-> ""], <<i, j, k - 1>>)]
         \o ScanSubsDeep(subs, i, j + 1)

\* The inner loop over the children of child i, from sub-child j on: a
\* failing read of Id, Type or Name leaves the enclosing try block and ends
\* the loop.
RECURSIVE ScanSubs(_, _, _)
ScanSubs(subs, i, j) ==
    IF j >= Len(subs) THEN <<>>
    ELSE IF subs[j + 1].fails = "Name" THEN <<>>
    ELSE <<SubInfo(subs[j + 1], <<i, j>>)>> \o ScanSubs(subs, i, j + 1)

\* The outer loop from child i on: a failing read of Id, Type or Name leaves
\* the outer try block, which ends the scan with the elements found so far.
RECURSIVE ScanChildren(_, _)
ScanChildren(children, i) ==
    IF i >= Len(children) THEN <<>>
    ELSE LET child == children[i + 1]
         IN  IF child.fails = "Name" THEN <<>>
             ELSE <<Info(child, <<i>>)>>
                  \o (IF child.container = "yes"
                      THEN ScanSubs(child.children, i, 0)
                      ELSE <<>>)
                  \o ScanChildren(children, i + 1)

explore_screen(tree, container_id) ==
    [ret |-> List(IF tree.present THEN ScanChildren(tree.children, 0) ELSE <<>>),
     exc |-> NoException,
     calls |-> <<FindByIdCall(container_id)>>]

InitExplore ==
    /\ controls \in Trees
    /\ op = Idle
    /\ ret = None
    /\ exc = NoException
    /\ calls = <<>>
    /\ grid = NoGrid
    /\ screen = {}
    /\ sbar = NoStatus
    /\ broken = {}
    /\ uiLocked = FALSE
    /\ frames = <<>>
    /\ pc = 0

ExploreScreen ==
    /\ op = Idle
    /\ op' = [name |-> "explore_screen", container_id |-> UserArea]
    /\ Result(explore_screen(controls, UserArea))
    /\ UNCHANGED <<remote, grid, lock, pc>>

NextExplore == ExploreScreen

SpecExplore == InitExplore /\ [][NextExplore]_vars

(***************************************************************************)
(* Claims about the screen inventory (checked under SpecExplore).          *)
(***************************************************************************)
Inventoried == {ret.val[k].id : k \in 1..Len(ret.val)}
ChildAt(i) == controls.children[i + 1]
ChildIndexes == 0..(Len(controls.children) - 1)
SubIndexes(i) == 0..(Len(ChildAt(i).children) - 1)

\* C19: every record explore_screen returns is of a direct child of the
\* container, or of a direct child of a direct child that is a container; no
\* record is of a control further down.
C19_InventoryIsTwoLevels ==
    op.name = "explore_screen"
    => \A id \in Inventoried :
          /\ Len(id) \in {1, 2}
          /\ id[1] \in ChildIndexes
          /\ Len(id) = 2
                => /\ ChildAt(id[1]).container = "yes"
                   /\ id[2] \in SubIndexes(id[1])

\* A tree with a control three levels down has been inventoried: the
\* control's parent is in the result, at the second level.
C19_Witness ==
    /\ op.name = "explore_screen"
    /\ \E i \in ChildIndexes : \E j \in SubIndexes(i) :
          /\ ChildAt(i).children[j + 1].below = 1
          /\ <<i, j>> \in Inventoried
    /\ \A id \in Inventoried : Len(id) <= 2

\* C20: a property read that fails on one element costs no other element
\* its record: every direct child whose own properties can all be read has
\* a record, and so has every such sub-child of every such container child.
C20_FailureDegradesOneElement ==
    (op.name = "explore_screen" /\ controls.present)
    => \A i \in ChildIndexes :
          ChildAt(i).fails = ""
          => /\ <<i>> \in Inventoried
             /\ ChildAt(i).container = "yes"
                   => \A j \in SubIndexes(i) :
                         ChildAt(i).children[j + 1].fails = ""
                         => <<i, j>> \in Inventoried

\* C21: every record of explore_screen, of a direct child or of a sub-child,
\* has the five keys id, type, name, text and changeable.
C21_RecordsCarryFiveFields ==
    op.name = "explore_screen"
    => \A k \in 1..Len(ret.val) :
          DOMAIN ret.val[k] = {"id", "type", "name", "text", "changeable"}

(***************************************************************************)
(* Further claims about the scoped UI lock (checked under SpecLock).       *)
(***************************************************************************)
\* C22: while a protected block is open, nested in another or not, the
\* remote UI is locked.
C22_LockedWhileBlockOpen ==
    frames # <<>> => uiLocked

Locks == CallsOf("LockSessionUI")
Unlocks == CallsOf("UnlockSessionUI")
FailedLocks == {i \in Locks : "raised" \in DOMAIN calls[i]}

\* C30: every entry into locked() makes one LockSessionUI call and every
\* exit one UnlockSessionUI call, after the block's lock call: an open block
\* has made none yet, a block that was left exactly one, an entry whose
\* LockSessionUI failed none at all; so there are never more unlock calls
\* than lock calls.
C30_LockCallsBalanced ==
    /\ Cardinality(Unlocks) <= Cardinality(Locks)
    /\ \A b \in 1..Entered :
          /\ Cardinality(CallsOfBlock("LockSessionUI", b)) = 1
          /\ \A i \in CallsOfBlock("LockSessionUI", b) :
                /\ \A j \in CallsOfBlock("UnlockSessionUI", b) : i < j
                /\ Cardinality(CallsOfBlock("UnlockSessionUI", b)) =
                       IF i \in FailedLocks \/ b \in OpenBlocks THEN 0 ELSE 1

\* Two nested blocks have been entered and left and a third entry failed at
\* LockSessionUI: three lock calls, two unlock calls.
C30_Witness ==
    /\ frames = <<>>
    /\ Cardinality(Locks) = 3
    /\ Cardinality(FailedLocks) = 1
    /\ Cardinality(Unlocks) = 2
    /\ \E i \in Locks, j \in Locks, k \in Unlocks : i < j /\ j < k /\ calls[k].id = calls[j].id

(***************************************************************************)
(* Further claims about the session primitives (checked under Spec).       *)
(***************************************************************************)
\* C26: handle_popup on a screen with wnd[1] and a dismiss button whose press
\* goes through returns True, raises nothing, and has pressed that button
\* once and nothing else.
C26_DismissedPopupReturnsTrue ==
    (/\ op.name = "handle_popup"
     /\ PopupWindow \in screen
     /\ op.button_id \in screen \ broken)
    => /\ ret = Bool(TRUE)
       /\ ~Raised
       /\ Cardinality(Pressed) = 1
       /\ \A i \in Pressed : calls[i].id = op.button_id

\* The popup's own button was pressed after the popup window was found.
C26_Witness ==
    /\ op.name = "handle_popup"
    /\ op.check_exists
    /\ op.button_id = DismissButton
    /\ DismissButton \in screen \ broken
    /\ ret = Bool(TRUE)
    /\ calls = <<FindByIdCall(PopupWindow), FindByIdCall(DismissButton),
                 PressCall(DismissButton)>>

(***************************************************************************)
(* Further claims about the workflow helpers (checked under SpecFlow).     *)
(***************************************************************************)
\* The calls a helper makes without a handler: the transaction start, the
\* keys, and the writes by id of run_se16h other than the row limit.
StrictCalls ==
    {i \in 1..Len(calls) :
        \/ calls[i].call \in {"start_transaction", "send_vkey"}
        \/ /\ calls[i].call \in {"set_field_by_id", "set_checkbox_by_id"}
           /\ calls[i].arg # MaxLinesField}

LaterSteps == {"handle_popup", "check_statusbar_error", "find_grid", "grid_read_all"}

\* C24: when a strict call of a helper fails (the transaction start, a key or
\* its window lookup, a write by id of the table name or of a field name),
\* the helper ends there with that error: the failed call is its last call,
\* and no popup check, status read, grid lookup or grid read was made.
C24_StrictFailureEndsHelper ==
    \A i \in StrictCalls :
       calls[i].gave = "raised"
       => /\ i = Len(calls)
          /\ pc = 0
          /\ exc = ComError
          /\ ret = NoReturn
          /\ \A j \in 1..Len(calls) : calls[j].call \notin LaterSteps

\* run_se16h has ended at the write of its second field name, after the
\* writes of the table name and of the first field name went through.
C24_Witness ==
    /\ op.name = "run_se16h"
    /\ pc = 0
    /\ exc = ComError
    /\ Len(calls) >= 4
    /\ LET last == calls[Len(calls)]
       IN  /\ last.call = "set_field_by_id"
           /\ last.arg = <<FieldsTable, "/ctxtGS_FIELDS-FIELDNAME", 0, 1>>
           /\ last.gave = "raised"

\* run_transaction_report has ended at the window lookup of its execute key.
C24_WitnessWindowLookup ==
    /\ op.name = "run_transaction_report"
    /\ pc = 0
    /\ exc = ComError
    /\ LET last == calls[Len(calls)]
       IN  /\ last.call = "send_vkey"
           /\ last.did = <<FindByIdCall(MainWindow)>>

\* C29: run_se16h asks grid_read_all for the names of its field list in the
\* order of the list, followed by "COUNT" exactly when some field is grouped,
\* and every record it returns has exactly these columns as its keys.
C29_HarvestColumnsFollowFields ==
    (op.name = "run_se16h" /\ HarvestDone)
    => LET cols == calls[Len(calls)].arg.columns
           n == Len(op.fields)
           grouped == \E i \in 1..n : op.fields[i].group
       IN  /\ cols # NoColumns
           /\ Len(cols.val) = IF grouped THEN n + 1 ELSE n
           /\ \A i \in 1..n : cols.val[i] = op.fields[i].name
           /\ grouped => cols.val[n + 1] = "COUNT"
           /\ \A k \in 1..Len(ret.val) : DOMAIN ret.val[k] = Range(cols.val)

\* Two fields, the second grouped: the records have the two names and COUNT.
C29_Witness ==
    /\ op.name = "run_se16h"
    /\ HarvestDone
    /\ Len(op.fields) = 2
    /\ ~op.fields[1].group
    /\ op.fields[2].group
    /\ calls[Len(calls)].arg.columns = Columns(<<"BUKRS", "GJAHR", "COUNT">>)
    /\ Len(ret.val) >= 1
    /\ DOMAIN ret.val[1] = {"BUKRS", "GJAHR", "COUNT"}

\* No field is grouped: the records have the field names and no COUNT.
C29_WitnessUngrouped ==
    /\ op.name = "run_se16h"
    /\ HarvestDone
    /\ Len(op.fields) = 1
    /\ Len(ret.val) >= 1
    /\ DOMAIN ret.val[1] = {"BUKRS"}

(***************************************************************************)
(* The two probing lookups, called on their own: find_grid on a screen     *)
(* that resolves some of the grid addresses below a search id, set_field   *)
(* on a screen where findByName finds the field name under the type        *)
(* prefixes in DOMAIN controls.                                            *)
(***************************************************************************)
PopupArea == "wnd[1]/usr"
SearchIds == {UserArea, PopupArea}
ProbeScreens == UNION {SUBSET Range(common_paths(id)) : id \in SearchIds}
NamedControls ==
    UNION {[found -> [writable : BOOLEAN]] : found \in SUBSET Range(ProbeOrder)}

InitProbe ==
    /\ screen \in ProbeScreens
    /\ controls \in NamedControls
    /\ op = Idle
    /\ ret = None
    /\ exc = NoException
    /\ calls = <<>>
    /\ grid = NoGrid
    /\ sbar = NoStatus
    /\ broken = {}
    /\ uiLocked = FALSE
    /\ frames = <<>>
    /\ pc = 0

CallFindGrid ==
    /\ \E search_id \in SearchIds :
          /\ op' = [name |-> "find_grid", search_id |-> search_id]
          /\ Result(find_grid(screen, search_id))
    /\ UNCHANGED <<remote, grid, lock, pc>>

CallSetField ==
    /\ \E field_type \in {""} \cup Range(ProbeOrder) :
          LET found == DOMAIN controls
              writable == {t \in found : controls[t].writable}
              r == set_field(found, writable, FieldName(1), FieldValue(1), field_type)
          IN  /\ op' = [name |-> "set_field", field_name |-> FieldName(1),
                        value |-> FieldValue(1), field_type |-> field_type]
              /\ ret' = IF r.exc = NoException THEN None ELSE NoReturn
              /\ exc' = r.exc
              /\ calls' = r.calls
    /\ UNCHANGED <<remote, grid, lock, pc>>

NextProbe ==
    \/ CallFindGrid
    \/ CallSetField

SpecProbe == InitProbe /\ [][NextProbe]_vars

(***************************************************************************)
(* Claims about the probing lookups (checked under SpecProbe).             *)
(***************************************************************************)
Ranked ==
    << "/cntlRESULT_LIST/shellcont/shell", "/cntlCONTAINER/shellcont/shell",
       "/cntlGRID1/shellcont/shell", "/cntlGRID/shellcont/shell",
       "/cntlALV_CONTAINER/shellcont/shell" >>
RankedId(k) == <<op.search_id, Ranked[k]>>
ResolvingRanks == {k \in 1..Len(Ranked) : RankedId(k) \in screen}
Lowest(ranks) == CHOOSE k \in ranks : \A other \in ranks : k <= other

C27_WitnessNone ==
    /\ op.name = "find_grid"
    /\ ResolvingRanks = {}
    /\ ret = None
    /\ Len(calls) = 5

PrefixOrder == <<"ctxt", "txt", "cmb">>
FoundRanks == {k \in 1..Len(PrefixOrder) : PrefixOrder[k] \in DOMAIN controls}
IsWrite(c) == c.call = "text="
IsProbe(c) == c.call = "findByName"

\* C28: set_field without a type asks findByName for the name under ctxt,
\* txt, cmb in this order up to the first prefix that finds a control, and
\* assigns the value to that control once and to no other; when no prefix
\* finds one it has asked under all three, assigned nothing, and raises
\* ValueError.
C28_FirstPrefixFoundIsWritten ==
    (op.name = "set_field" /\ op.field_type = "")
    => LET reached == IF FoundRanks = {} THEN Len(PrefixOrder) ELSE Lowest(FoundRanks)
           probes == [k \in 1..reached |-> FindByNameCall(op.field_name, PrefixOrder[k])]
       IN  /\ SelectSeq(calls, IsProbe) = probes
           /\ IF FoundRanks = {}
              THEN /\ calls = probes
                   /\ exc = <<"ValueError">>
              ELSE /\ calls = probes \o <<SetTextCall(op.field_name, PrefixOrder[reached],
                                                     op.value)>>
                   /\ exc # <<"ValueError">>
                   /\ controls[PrefixOrder[reached]].writable => exc = NoException

\* The name exists as txt and as cmb: txt was written after two probes.
C28_Witness ==
    /\ op.name = "set_field"
    /\ op.field_type = ""
    /\ DOMAIN controls = {"txt", "cmb"}
    /\ exc = NoException
    /\ Len(calls) = 3
    /\ calls[3] = SetTextCall("BUKRS", "txt", "1000")

\* The name exists under no prefix: ValueError after three probes.
C28_WitnessNotFound ==
    /\ op.name = "set_field"
    /\ op.field_type = ""
    /\ DOMAIN controls = {}
    /\ exc = <<"ValueError">>
    /\ SelectSeq(calls, IsWrite) = <<>>
    /\ Len(calls) = 3

(***************************************************************************)
(* Attaching to the running SAP GUI.  controls holds what is registered    *)
(* under "SAPGUI": whether the scripting engine can be had, the number of  *)
(* sessions of every open connection, and whether Info of a session can be *)
(* read.  pythoncom.CoInitialize() is taken to succeed.                    *)
(***************************************************************************)
SessionCounts == UNION {[1..n -> 0..MaxOpen] : n \in 0..MaxOpen}

Engines ==
    {[running |-> FALSE, sessions |-> <<>>, info_ok |-> FALSE]}
    \cup [running : {TRUE}, sessions : SessionCounts, info_ok : BOOLEAN]

\* raise X(...) inside an except block: X with the handled error as context.
ConnectionError(cause) == <<"ConnectionError">> \o cause
RuntimeError(cause) == <<"RuntimeError">> \o cause

\* Children(index) of a collection of `count` members.
ChildExists(count, index) == index \in 0..(count - 1)

Session(connection_index, session_index) ==
    [kind |-> "session", connection |-> connection_index, session |-> session_index]

\* The body of _connect's try block: the error it ends with.
Attach(engine, connection_index, session_index) ==
    IF ~engine.running THEN ComError
    ELSE IF ~ChildExists(Len(engine.sessions), connection_index) THEN ComError
    ELSE IF ~ChildExists(engine.sessions[connection_index + 1], session_index)
    THEN ComError
    ELSE IF ~engine.info_ok THEN ComError
    ELSE NoException

\* A _connect that lets the error of its try block through as it is.
_connect_unwrapped(engine, connection_index, session_index) ==
    Attach(engine, connection_index, session_index)

_connect(engine, connection_index, session_index) ==
    LET e == Attach(engine, connection_index, session_index)
    IN  IF e = NoException THEN NoException ELSE ConnectionError(e)

\* SapSession(connection_index, session_index)
SapSession(engine, connection_index, session_index) ==
    LET e == _connect(engine, connection_index, session_index)
    IN  [ret |-> IF e = NoException THEN Session(connection_index, session_index)
                 ELSE NoReturn,
         exc |-> e, calls |-> <<>>]

\* SAPAutomation()
SAPAutomation(engine) ==
    LET e == IF ~engine.running THEN ComError
             ELSE IF Len(engine.sessions) = 0 THEN <<"ValueError">>
             ELSE IF engine.sessions[1] = 0 THEN <<"ValueError">>
             ELSE NoException
    IN  [ret |-> IF e = NoException THEN Session(0, 0) ELSE NoReturn,
         exc |-> IF e = NoException THEN NoException ELSE RuntimeError(e),
         calls |-> <<>>]

InitAttach ==
    /\ controls \in Engines
    /\ op = Idle
    /\ ret = None
    /\ exc = NoException
    /\ calls = <<>>
    /\ grid = NoGrid
    /\ screen = {}
    /\ sbar = NoStatus
    /\ broken = {}
    /\ uiLocked = FALSE
    /\ frames = <<>>
    /\ pc = 0

NewSapSession ==
    /\ op = Idle
    /\ \E connection_index \in 0..MaxOpen, session_index \in 0..MaxOpen :
          /\ op' = [name |-> "SapSession", connection_index |-> connection_index,
                    session_index |-> session_index]
          /\ Result(SapSession(controls, connection_index, session_index))
    /\ UNCHANGED <<remote, grid, lock, pc>>

NewSAPAutomation ==
    /\ op = Idle
    /\ op' = [name |-> "SAPAutomation", connection_index |-> 0, session_index |-> 0]
    /\ Result(SAPAutomation(controls))
    /\ UNCHANGED <<remote, grid, lock, pc>>

NextAttach ==
    \/ NewSapSession
    \/ NewSAPAutomation

SpecAttach == InitAttach /\ [][NextAttach]_vars

(***************************************************************************)
(* Claims about attaching (checked under SpecAttach).                      *)
(***************************************************************************)
Attaching == op.name \in {"SapSession", "SAPAutomation"}
TargetMissing ==
    \/ ~controls.running
    \/ op.connection_index >= Len(controls.sessions)
    \/ op.session_index >= controls.sessions[op.connection_index + 1]
ConnectionFailure ==
    IF op.name = "SapSession" THEN "ConnectionError" ELSE "RuntimeError"

\* C23: an attach raises nothing or the connection failure of its class
\* (ConnectionError for SapSession, RuntimeError for SAPAutomation); when the
\* SAP GUI is not running, or the connection or the session of the given
\* index does not exist, it raises and no object comes back.
C23_AttachFailsAsConnectionFailure ==
    Attaching
    => /\ exc # NoException => Head(exc) = ConnectionFailure /\ ret = NoReturn
       /\ TargetMissing => exc # NoException

\* SapSession(0, 1) with one connection that has one session: the session of
\* index 1 is missing and ConnectionError is raised.
C23_Witness ==
    /\ op.name = "SapSession"
    /\ controls.running
    /\ controls.sessions = <<1>>
    /\ op.connection_index = 0
    /\ op.session_index = 1
    /\ exc = <<"ConnectionError", "com_error">>
    /\ ret = NoReturn

\* SAPAutomation() with a connection without sessions: RuntimeError.
C23_WitnessAutomation ==
    /\ op.name = "SAPAutomation"
    /\ controls.running
    /\ Len(controls.sessions) > 0
    /\ controls.sessions[1] = 0
    /\ exc = <<"RuntimeError", "ValueError">>
    /\ ret = NoReturn

(***************************************************************************)
(* Handles and navigation in a helper run (checked under SpecFlow).  A     *)
(* handle is named by the address it was resolved from, or, where a method *)
(* resolves by probing, by the variable that holds what the probing found. *)
(***************************************************************************)
Resolve(h) == [ev |-> "resolve", h |-> h]
Use(h) == [ev |-> "use", h |-> h]
Navigate(h) == [ev |-> "navigate", h |-> h]
\* StartTransaction is called on the session itself, through no handle.
SessionNavigation == Navigate(<<>>)

OfScriptingCall(c) ==
    CASE c.call = "findById" -> Resolve(<<c.id>>)
      [] c.call = "sendVKey" -> Navigate(<<c.id>>)
      [] OTHER -> Use(<<c.id>>)

\* What a method called by a helper does with handles, in the order of its
\* statements, when all of them run.
Scripting(c) ==
    CASE c.call = "start_transaction" -> <<SessionNavigation>>
      [] c.call \in {"set_field_by_id", "set_checkbox_by_id"} ->
            <<Resolve(c.arg), Use(c.arg)>>
      [] c.call = "send_vkey" -> [k \in 1..Len(c.did) |-> OfScriptingCall(c.did[k])]
      [] c.call = "set_field" ->
            <<Resolve(<<c.arg[1], "element">>), Use(<<c.arg[1], "element">>)>>
      [] c.call = "handle_popup" ->
            <<Resolve(<<PopupWindow>>), Resolve(<<DismissButton>>),
              Navigate(<<DismissButton>>)>>
      [] c.call = "check_statusbar_error" ->
            <<Resolve(<<StatusBarId>>), Use(<<StatusBarId>>)>>
      [] c.call = "find_grid" -> <<Resolve(<<c.arg, "grid">>)>>
      [] c.call = "grid_read_all" -> <<Use(<<UserArea, "grid">>)>>

RECURSIVE Trace(_)
Trace(made) ==
    IF made = <<>> THEN <<>> ELSE Scripting(Head(made)) \o Trace(Tail(made))

ThroughHandle(t) ==
    {k \in 1..Len(t) : t[k].ev \in {"use", "navigate"} /\ t[k].h # <<>>}

\* C25: in a helper run every use of a control handle (a read, a write, a
\* key or a press sent through it) comes after a resolution of that handle
\* with no navigating call (StartTransaction, sendVKey, press) between the
\* resolution and the use.
C25_NoHandleAcrossNavigation ==
    LET t == Trace(calls)
    IN  \A k \in ThroughHandle(t) :
           \E j \in 1..(k - 1) :
              /\ t[j] = Resolve(t[k].h)
              /\ \A m \in (j + 1)..(k - 1) : t[m].ev # "navigate"

\* run_se16h has read the grid after five navigating calls: the transaction
\* start, two Enter keys, F8 and the press in the popup.
C25_Witness ==
    /\ op.name = "run_se16h"
    /\ HarvestDone
    /\ LET t == Trace(calls)
       IN  /\ t[Len(t)] = Use(<<UserArea, "grid">>)
           /\ Cardinality({k \in 1..Len(t) : t[k].ev = "navigate"}) = 5

====
